---- MODULE Spec2Model ----
(***************************************************************************)
(* Model of static/js/chat-history.js: the builders that turn a chat       *)
(* message record into HTML fragments, and their use of the gallery        *)
(* collaborator (galleryApi).                                              *)
(*                                                                         *)
(* JavaScript values are tagged tuples.   A JavaScript string is a         *)
(* sequence of symbols; a symbol is either one character of data ("a",     *)
(* "5") or one literal chunk of a template of the source file (a TLA+      *)
(* string longer than one character, such as "</a>").  Data strings of     *)
(* the inputs hold characters only, so a chunk in an output was written    *)
(* there by the code.  Cyrillic literals of the source are written in      *)
(* English, the em-dash as "--".                                           *)
(***************************************************************************)
EXTENDS Integers, Sequences, FiniteSets, TLC

VARIABLES op, args, ret, galleryApi, registry, calls, lastByKey, repeat, chatHistory

vars == <<op, args, ret, galleryApi, registry, calls, lastByKey, repeat, chatHistory>>

(***************************************************************************)
(* JavaScript values                                                       *)
(***************************************************************************)
Undef == <<"undefined">>

Null == <<"null">>

Bool(b) == <<"boolean", b>>

Num(n) == <<"number", n>>

Str(s) == <<"string", s>>

Arr(a) == <<"array", a>>

\* An object: its own fields as <<name, value>> pairs, in insertion order.
Obj(f) == <<"object", f>>

\* The exception a call raises (TypeError, or whatever a collaborator throws).
Thrown == <<"thrown">>

Tag(v) == v[1]

IsThrown(v) == Tag(v) = "thrown"

Nullish(v) == Tag(v) \in {"undefined", "null"}

\* ToBoolean: what `if (v)`, `v || w`, `v ? a : b` and Boolean(v) test.
Truthy(v) ==
  CASE Tag(v) = "undefined" -> FALSE
    [] Tag(v) = "null" -> FALSE
    [] Tag(v) = "boolean" -> v[2]
    [] Tag(v) = "number" -> v[2] # 0
    [] Tag(v) = "string" -> Len(v[2]) > 0
    [] OTHER -> TRUE

\* o.name for a non-nullish o (a primitive has no own fields of these names).
Get(o, name) ==
  IF Tag(o) = "object" /\ \E i \in 1..Len(o[2]) : o[2][i][1] = name
    THEN o[2][CHOOSE i \in 1..Len(o[2]) : o[2][i][1] = name][2]
    ELSE Undef

\* a || b
OrElse(a, b) == IF Truthy(a) THEN a ELSE b

\* a ?? b
Coalesce(a, b) == IF Nullish(a) THEN b ELSE a

Digit == <<"0", "1", "2", "3", "4", "5", "6", "7", "8", "9">>

RECURSIVE Digits(_)
Digits(n) == IF n < 10 THEN <<Digit[n + 1]>> ELSE Digits(n \div 10) \o <<Digit[(n % 10) + 1]>>

\* String(v): what `${v}` puts into a template literal.
StringOf(v) ==
  CASE Tag(v) = "undefined" -> <<"u", "n", "d", "e", "f", "i", "n", "e", "d">>
    [] Tag(v) = "null" -> <<"n", "u", "l", "l">>
    [] Tag(v) = "boolean" -> IF v[2] THEN <<"t", "r", "u", "e">> ELSE <<"f", "a", "l", "s", "e">>
    [] Tag(v) = "number" -> IF v[2] < 0 THEN <<"-">> \o Digits(-v[2]) ELSE Digits(v[2])
    [] Tag(v) = "string" -> v[2]
    [] OTHER -> <<"[object Object]">>

Contains(s, sym) == \E i \in 1..Len(s) : s[i] = sym

Count(s, sym) == Cardinality({i \in 1..Len(s) : s[i] = sym})

\* s holds the chunk `open`, then exactly the characters of id, then `close`.
ContainsLink(s, open, id, close) ==
  \E i \in 1..Len(s) :
    /\ s[i] = open
    /\ i + Len(id) + 1 <= Len(s)
    /\ SubSeq(s, i + 1, i + Len(id)) = id
    /\ s[i + Len(id) + 1] = close

(***************************************************************************)
(* Literal chunks of the templates                                         *)
(***************************************************************************)
\* '<span class="text-secondary">—</span>'
placeholder == Str(<<"<span class='text-secondary'>--</span>">>)

Dash == Str(<<"--">>)

UntitledChat == Str(<<"Untitled chat">>)

UnknownSender == Str(<<"Unknown sender">>)

BotBadge == "<span class='sender-badge'>Bot</span>"

ChatLinkOpen == "<a href='/chat/"

UserLinkOpen == "<a href='/user/"

LinkAttrs == "' target='_blank' class='text-decoration-none text-light d-inline-flex align-items-center gap-2'>"

LinkClose == "</a>"

SenderOpen == "<div class='d-flex align-items-center gap-2 flex-wrap'>"

DivClose == "</div>"

\* Every chunk that opens a hyperlink.
LinkOpens == {ChatLinkOpen, UserLinkOpen, "<a href='https://vk.com/im?sel="}

HasAnyLink(s) == \E i \in 1..Len(s) : s[i] \in LinkOpens

(***************************************************************************)
(* buildAvatarLabel, buildPeerCell, buildSenderCell                        *)
(***************************************************************************)
buildAvatarLabel(label, avatarUrl) ==
  LET safeLabel == OrElse(label, Dash)
  IN IF Truthy(avatarUrl)
       THEN Str(<<"<span class='d-inline-flex align-items-center gap-2'><img src='">>
                \o StringOf(avatarUrl)
                \o <<"' alt='Avatar' class='avatar-inline' loading='lazy' /> <span>">>
                \o StringOf(safeLabel) \o <<"</span></span>">>)
       ELSE safeLabel

\* options = {} when the argument is omitted.
Options(options) == IF Tag(options) = "undefined" THEN Obj(<<>>) ELSE options

\* A plausible slip: the link is built whenever linking is allowed.
buildPeerCell_NoIdCheck(message, options) ==
  IF Nullish(message) THEN Thrown
  ELSE
    LET chatName == OrElse(Get(message, "peer_title"), UntitledChat)
        avatarUrl == Get(message, "peer_avatar")
        allowLink == Get(Options(options), "allowLink") # Bool(FALSE)
    IN IF allowLink
         THEN Str(<<ChatLinkOpen>> \o StringOf(Get(message, "peer_id")) \o <<LinkAttrs>>
                  \o StringOf(buildAvatarLabel(chatName, avatarUrl)) \o <<LinkClose>>)
         ELSE buildAvatarLabel(chatName, avatarUrl)

\* A plausible slip: ?? in place of ||, so an empty title is kept.
buildPeerCell_EmptyTitle(message, options) ==
  IF Nullish(message) THEN Thrown
  ELSE
    LET chatName == Coalesce(Get(message, "peer_title"), UntitledChat)
        avatarUrl == Get(message, "peer_avatar")
        allowLink == Get(Options(options), "allowLink") # Bool(FALSE)
        hasId == Truthy(Get(message, "peer_id"))
    IN IF allowLink /\ hasId
         THEN Str(<<ChatLinkOpen>> \o StringOf(Get(message, "peer_id")) \o <<LinkAttrs>>
                  \o StringOf(buildAvatarLabel(chatName, avatarUrl)) \o <<LinkClose>>)
         ELSE buildAvatarLabel(chatName, avatarUrl)

buildPeerCell(message, options) ==
  IF Nullish(message) THEN Thrown
  ELSE
    LET chatName == OrElse(Get(message, "peer_title"), UntitledChat)
        avatarUrl == Get(message, "peer_avatar")
        allowLink == Get(Options(options), "allowLink") # Bool(FALSE)
        hasId == Truthy(Get(message, "peer_id"))
    IN IF allowLink /\ hasId
         THEN Str(<<ChatLinkOpen>> \o StringOf(Get(message, "peer_id")) \o <<LinkAttrs>>
                  \o StringOf(buildAvatarLabel(chatName, avatarUrl)) \o <<LinkClose>>)
         ELSE buildAvatarLabel(chatName, avatarUrl)

\* A plausible slip: the badge is put inside the link.
buildSenderCell_BadgeInLink(message, options) ==
  IF Nullish(message) THEN Thrown
  ELSE
    LET senderName == OrElse(Get(message, "from_name"), UnknownSender)
        avatarUrl == Get(message, "from_avatar")
        allowLink == Get(Options(options), "allowLink") # Bool(FALSE)
        showBotBadge == Get(Options(options), "showBotBadge") # Bool(FALSE)
        botBadge == IF Truthy(Get(message, "is_bot")) /\ showBotBadge THEN <<BotBadge>> ELSE <<>>
        baseLabel == buildAvatarLabel(senderName, avatarUrl)
        hasId == Truthy(Get(message, "from_id"))
    IN IF allowLink /\ hasId
         THEN Str(<<SenderOpen, UserLinkOpen>> \o StringOf(Get(message, "from_id")) \o <<LinkAttrs>>
                  \o StringOf(baseLabel) \o botBadge \o <<LinkClose>> \o <<DivClose>>)
         ELSE Str(<<SenderOpen>> \o StringOf(baseLabel) \o botBadge \o <<DivClose>>)

buildSenderCell(message, options) ==
  IF Nullish(message) THEN Thrown
  ELSE
    LET senderName == OrElse(Get(message, "from_name"), UnknownSender)
        avatarUrl == Get(message, "from_avatar")
        allowLink == Get(Options(options), "allowLink") # Bool(FALSE)
        showBotBadge == Get(Options(options), "showBotBadge") # Bool(FALSE)
        botBadge == IF Truthy(Get(message, "is_bot")) /\ showBotBadge THEN <<BotBadge>> ELSE <<>>
        baseLabel == buildAvatarLabel(senderName, avatarUrl)
        hasId == Truthy(Get(message, "from_id"))
    IN IF allowLink /\ hasId
         THEN Str(<<SenderOpen, UserLinkOpen>> \o StringOf(Get(message, "from_id")) \o <<LinkAttrs>>
                  \o StringOf(baseLabel) \o <<LinkClose>> \o botBadge \o <<DivClose>>)
         ELSE Str(<<SenderOpen>> \o StringOf(baseLabel) \o botBadge \o <<DivClose>>)

(***************************************************************************)
(* buildReplyPreview                                                       *)
(***************************************************************************)
\* reply.text.slice(0, 120): the number of characters kept.
ReplyTextLimit == 120

\* s.slice(0, n) for a string s; a value with no slice method raises.
Slice(v, n) ==
  IF Tag(v) = "string"
    THEN Str(SubSeq(v[2], 1, IF Len(v[2]) < n THEN Len(v[2]) ELSE n))
    ELSE Thrown

NoText == Str(<<"No text">>)

AuthorNotSpecified == Str(<<"Author not specified">>)

AuthorUnknown == Str(<<"Author unknown">>)

DetailedOpen == "<div class='d-flex flex-column gap-1'><div class='d-flex align-items-center gap-2'>"

DetailedTextOpen == "</span></div><div class='text-secondary small'>"

DetailedTextClose == "</div><div class='text-secondary small'>"

CompactOpen == "<div class='d-flex flex-column gap-1'><div class='text-secondary small'>Reply to previous message</div><div class='text-light small'>"

CompactTextClose == "</div><div class='d-flex align-items-center gap-2 text-secondary small'>"

BlockClose == "</div></div>"

ModeDetailed == Str(<<"detailed">>)

ModeCompact == Str(<<"compact">>)

\* A plausible slip: one character too many is kept.
replyText_OffByOne(reply) ==
  IF Truthy(Get(reply, "text")) THEN Slice(Get(reply, "text"), ReplyTextLimit + 1) ELSE NoText

\* const replyText = reply.text ? reply.text.slice(0, 120) : 'Без текста'
replyText(reply) ==
  IF Truthy(Get(reply, "text")) THEN Slice(Get(reply, "text"), ReplyTextLimit) ELSE NoText

\* The detailed block, for a reply that has any of id, text, from_id.
replyDetailedBlock(reply, options) ==
  LET id == Get(reply, "id")
      from_id == Get(reply, "from_id")
      from_name == Get(reply, "from_name")
      attachments == Get(reply, "attachments")
      replyId == Coalesce(id, Dash)
      replyAuthorLabel ==
        IF Truthy(from_name)
          THEN Str(StringOf(from_name) \o <<" (ID: ">> \o StringOf(Coalesce(from_id, Dash)) \o <<")">>)
          ELSE IF Truthy(from_id) THEN Str(<<"ID: ">> \o StringOf(from_id))
          ELSE AuthorUnknown
      replyAuthorCell == buildAvatarLabel(replyAuthorLabel, Get(reply, "from_avatar"))
      peerId == Get(options, "peerId")
      replyLink ==
        IF Truthy(id) /\ Truthy(peerId)
          THEN <<"<a href='https://vk.com/im?sel=">> \o StringOf(peerId) \o <<"&msgid=">>
               \o StringOf(id) \o <<"' target='_blank' rel='noopener noreferrer'>#">>
               \o StringOf(id) \o <<LinkClose>>
          ELSE <<"#">> \o StringOf(replyId)
      replyAttachmentsCount == IF Tag(attachments) = "array" THEN Len(attachments[2]) ELSE 0
      replyAttachmentsLabel ==
        IF replyAttachmentsCount # 0
          THEN Digits(replyAttachmentsCount) \o <<" attachments">>
          ELSE <<"No attachments">>
  IN IF IsThrown(replyText(reply)) THEN Thrown
     ELSE Str(<<DetailedOpen>> \o replyLink \o <<"<span class='text-secondary small'>">>
              \o replyAttachmentsLabel \o <<DetailedTextOpen>>
              \o replyText(reply)[2] \o <<DetailedTextClose>>
              \o StringOf(replyAuthorCell) \o <<BlockClose>>)

\* A plausible slip: the compact block is built without the badge.
replyCompactBlock_NoBadge(reply) ==
  LET replyAuthorName == OrElse(Get(reply, "from_name"), AuthorNotSpecified)
  IN IF IsThrown(replyText(reply)) THEN Thrown
     ELSE Str(<<CompactOpen>> \o replyText(reply)[2] \o <<CompactTextClose>>
              \o StringOf(replyAuthorName) \o <<BlockClose>>)

\* The compact block, for a reply that has text or from_name.
replyCompactBlock(reply) ==
  LET replyAuthorName == OrElse(Get(reply, "from_name"), AuthorNotSpecified)
      replyBotBadge == IF Truthy(Get(reply, "is_bot")) THEN <<BotBadge>> ELSE <<>>
  IN IF IsThrown(replyText(reply)) THEN Thrown
     ELSE Str(<<CompactOpen>> \o replyText(reply)[2] \o <<CompactTextClose>>
              \o StringOf(replyAuthorName) \o replyBotBadge \o <<BlockClose>>)

\* A plausible slip: the detailed branch tests the readable fields of the compact one.
buildReplyPreview_CompactTest(reply, options) ==
  IF ~Truthy(reply) THEN placeholder
  ELSE
    LET mode == OrElse(Get(Options(options), "mode"), ModeCompact)
        hasReadableData == Truthy(Get(reply, "text")) \/ Truthy(Get(reply, "from_name"))
    IN IF ~hasReadableData THEN placeholder
       ELSE IF mode = ModeDetailed THEN replyDetailedBlock(reply, Options(options))
       ELSE replyCompactBlock(reply)

buildReplyPreview(reply, options) ==
  IF ~Truthy(reply) THEN placeholder
  ELSE
    LET mode == OrElse(Get(Options(options), "mode"), ModeCompact)
        hasReadableData == Truthy(Get(reply, "text")) \/ Truthy(Get(reply, "from_name"))
    IN IF mode = ModeDetailed
         THEN IF /\ ~Truthy(Get(reply, "id"))
                 /\ ~Truthy(Get(reply, "text"))
                 /\ ~Truthy(Get(reply, "from_id"))
                THEN placeholder
                ELSE replyDetailedBlock(reply, Options(options))
         ELSE IF ~hasReadableData THEN placeholder
         ELSE replyCompactBlock(reply)

(***************************************************************************)
(* The gallery collaborator (galleryApi) and its registry                  *)
(***************************************************************************)
\* Longest list handed to registerEntityGalleries.
MaxList == 2

\* `entity-msg-${idx}`
EntityKey(idx) == <<"entity-msg-">> \o Digits(idx)

\* A key a page passes for a single row.
FreeKey == <<"m", "s", "g", "-", "1">>

Keys == {FreeKey} \cup {EntityKey(i) : i \in 0..MaxList}

NoEntry == <<"none">>

EmptyRegistry == [k \in Keys |-> NoEntry]

\* A function value; how says whether a call of it returns or throws.
Fn(how) == <<"function", how>>

\* galleryApi?.name
OptGet(o, name) == IF Nullish(o) THEN Undef ELSE Get(o, name)

\* {...o}
Spread(o) == IF Tag(o) = "object" THEN o ELSE Obj(<<>>)

\* {...o, name: v} for an object o
With(o, name, v) ==
  IF \E i \in 1..Len(o[2]) : o[2][i][1] = name
    THEN Obj([i \in 1..Len(o[2]) |-> IF o[2][i][1] = name THEN <<name, v>> ELSE o[2][i]])
    ELSE Obj(Append(o[2], <<name, v>>))

\* The collaborator's normalisation of a raw list: the descriptors that are
\* objects, each marked as normalised; anything else gives the empty list.
RECURSIVE NormalizeItems(_)
NormalizeItems(items) ==
  IF items = <<>> THEN <<>>
  ELSE (IF Tag(Head(items)) = "object"
          THEN <<With(Head(items), "normalized", Bool(TRUE))>>
          ELSE <<>>) \o NormalizeItems(Tail(items))

Normalize(raw) == IF Tag(raw) = "array" THEN Arr(NormalizeItems(raw[2])) ELSE Arr(<<>>)

\* galleryApi.extractAttachments(message)
ExtractAttachments(message) == Normalize(OptGet(message, "attachments"))

\* galleryApi.extractCopyHistory(message)
ExtractCopyHistory(message) == Normalize(OptGet(message, "copy_history"))

\* galleryApi.registerMessageGallery(entry, key): replace by key.
RegisterMessageGallery(reg, entry, key) == [reg EXCEPT ![key] = entry]

\* galleryApi.buildContentCell(attachments, copyHistory, key)
BuildContentCell(attachments, copyHistory, key) ==
  Str(<<"<div class='message-gallery' data-gallery-key='">> \o key \o <<"'>">>
      \o Digits(Len(attachments[2])) \o <<"+">> \o Digits(Len(copyHistory[2])) \o <<DivClose>>)

(***************************************************************************)
(* prepareGalleryContent and registerEntityGalleries.  The collaborator's  *)
(* state is threaded through as world = <<registry, log>>; the log lists   *)
(* the calls made, <<name, key, message>> each.  Every operator returns    *)
(* <<value or Thrown, world>>.                                             *)
(***************************************************************************)
Logged(world, name, key, message) == <<world[1], Append(world[2], <<name, key, message>>)>>

\* A plausible slip: the operation is called without looking whether it is there.
OpPresent_Unchecked(api, name) == TRUE

\* galleryApi?.name ? ... : ...
OpPresent(api, name) == Truthy(OptGet(api, name))

\* Calling galleryApi.name: a missing value or a function that throws raises.
OpRaises(api, name) == OptGet(api, name) # Fn("returns")

\* A plausible slip: the message is registered as it came, the normalised lists dropped.
galleryEntry_RawMessage(message, normalizedAttachments, normalizedCopyHistory) == Spread(message)

\* { ...message, attachments: normalizedAttachments, copy_history: normalizedCopyHistory }
galleryEntry(message, normalizedAttachments, normalizedCopyHistory) ==
  With(With(Spread(message), "attachments", normalizedAttachments),
       "copy_history", normalizedCopyHistory)

\* The body the card and the table variant share; fallback is what contentCell
\* is without buildContentCell.
prepareGalleryContentWith(message, api, galleryKey, world, fallback) ==
  LET w0 == Logged(world, "prepareGalleryContent", galleryKey, message)
      hasA == OpPresent(api, "extractAttachments")
      wA == IF hasA THEN Logged(w0, "extractAttachments", <<>>, message) ELSE w0
      normalizedAttachments == IF hasA THEN ExtractAttachments(message) ELSE Arr(<<>>)
      hasC == OpPresent(api, "extractCopyHistory")
      wC == IF hasC THEN Logged(wA, "extractCopyHistory", <<>>, message) ELSE wA
      normalizedCopyHistory == IF hasC THEN ExtractCopyHistory(message) ELSE Arr(<<>>)
      hasR == OpPresent(api, "registerMessageGallery")
      entry == galleryEntry(message, normalizedAttachments, normalizedCopyHistory)
      wR == IF hasR THEN Logged(wC, "registerMessageGallery", galleryKey, entry) ELSE wC
      wR2 == IF hasR THEN <<RegisterMessageGallery(wR[1], entry, galleryKey), wR[2]>> ELSE wR
      hasB == OpPresent(api, "buildContentCell")
      wB == IF hasB THEN Logged(wR2, "buildContentCell", galleryKey, message) ELSE wR2
      contentCell ==
        IF hasB THEN BuildContentCell(normalizedAttachments, normalizedCopyHistory, galleryKey)
        ELSE fallback
  IN IF hasA /\ OpRaises(api, "extractAttachments") THEN <<Thrown, wA>>
     ELSE IF hasC /\ OpRaises(api, "extractCopyHistory") THEN <<Thrown, wC>>
     ELSE IF hasR /\ OpRaises(api, "registerMessageGallery") THEN <<Thrown, wR>>
     ELSE IF hasB /\ OpRaises(api, "buildContentCell") THEN <<Thrown, wB>>
     ELSE <<Obj(<<<<"contentCell", contentCell>>,
                  <<"normalizedAttachments", normalizedAttachments>>,
                  <<"normalizedCopyHistory", normalizedCopyHistory>>>>), wB>>

\* The first definition (card layout): contentCell falls back to ''.
prepareGalleryContentCard(message, galleryApi_, galleryKey, world) ==
  prepareGalleryContentWith(message, galleryApi_, galleryKey, world, Str(<<>>))

\* A plausible slip: a key that is taken is not reused, the next free one is.
prepareGalleryContent_FreshKey(message, galleryApi_, galleryKey, world) ==
  LET free == {k \in Keys : world[1][k] = NoEntry}
      key == IF world[1][galleryKey] = NoEntry \/ free = {} THEN galleryKey
             ELSE CHOOSE k \in free : TRUE
  IN prepareGalleryContentWith(message, galleryApi_, key, world, placeholder)

\* The second definition (table layout): contentCell falls back to the placeholder.
prepareGalleryContent(message, galleryApi_, galleryKey, world) ==
  prepareGalleryContentWith(message, galleryApi_, galleryKey, world, placeholder)

\* A plausible slip: the positions are counted from one.
RECURSIVE registerEach_OneBased(_, _, _, _)
registerEach_OneBased(messages, idx, galleryApi_, world) ==
  IF idx >= Len(messages) THEN <<Undef, world>>
  ELSE LET r == prepareGalleryContent(messages[idx + 1], galleryApi_, EntityKey(idx + 1), world)
       IN IF IsThrown(r[1]) THEN r
          ELSE registerEach_OneBased(messages, idx + 1, galleryApi_, r[2])

\* messages.forEach((msg, idx) => prepareGalleryContent(msg, galleryApi, `entity-msg-${idx}`)),
\* from index idx on; an exception ends the loop.
RECURSIVE registerEach(_, _, _, _)
registerEach(messages, idx, galleryApi_, world) ==
  IF idx >= Len(messages) THEN <<Undef, world>>
  ELSE LET r == prepareGalleryContent(messages[idx + 1], galleryApi_, EntityKey(idx), world)
       IN IF IsThrown(r[1]) THEN r
          ELSE registerEach(messages, idx + 1, galleryApi_, r[2])

registerEntityGalleries(messages, galleryApi_, world) ==
  IF Tag(messages) # "array" THEN <<Undef, world>>
  ELSE registerEach(messages[2], 0, galleryApi_, world)

(***************************************************************************)
(* The assemblers of the second definition (table rows), the ones the      *)
(* global chatHistory holds once the script has run                        *)
(***************************************************************************)
\* document.createElement(tag) with its classList and innerHTML.
Element(tag, classes, innerHTML) == <<"element", tag, classes, innerHTML>>

\* const formatDate = options.formatDate || ((value) => value || '—'); formatDate(value)
formatDate(options, value) ==
  LET given == Get(options, "formatDate")
  IN IF ~Truthy(given) THEN OrElse(value, Dash)
     ELSE IF given = Fn("returns") THEN Str(<<"formatted:">> \o StringOf(value))
     ELSE Thrown

LinkOn == Obj(<<<<"allowLink", Bool(TRUE)>>>>)

LinkAndBadgeOn == Obj(<<<<"allowLink", Bool(TRUE)>>, <<"showBotBadge", Bool(TRUE)>>>>)

Td == "<td>"

TdNowrap == "<td class='text-nowrap'>"

TdClose == "</td>"

Cell(open, v) == <<open>> \o StringOf(v) \o <<TdClose>>

\* A plausible slip: the sender cell is built with the badge switched off.
buildDashboardRow_BadgeOff(message, galleryApi_, galleryKey, options, world) ==
  IF Nullish(message) THEN <<Thrown, world>>
  ELSE
    LET opts == Options(options)
        classes == (IF Truthy(Get(opts, "isNew")) THEN <<"message-row-new">> ELSE <<>>)
                   \o (IF Truthy(Get(message, "is_deleted")) THEN <<"message-deleted">> ELSE <<>>)
        createdAt == formatDate(opts, Get(message, "created_at"))
        peerCell == buildPeerCell(message, LinkOn)
        authorCell == buildSenderCell(message, With(LinkOn, "showBotBadge", Bool(FALSE)))
        replyCell == buildReplyPreview(Get(message, "reply"), Obj(<<<<"mode", ModeCompact>>>>))
        g == prepareGalleryContent(message, galleryApi_, galleryKey, world)
        textCell == Coalesce(Get(message, "text"), Str(<<>>))
    IN IF IsThrown(createdAt) \/ IsThrown(replyCell) THEN <<Thrown, world>>
       ELSE IF IsThrown(g[1]) THEN g
       ELSE <<Element("tr", classes,
                      Cell("<td class='text-secondary small text-nowrap'>", createdAt)
                      \o Cell(TdNowrap, peerCell) \o Cell(TdNowrap, authorCell)
                      \o Cell(Td, replyCell) \o Cell(Td, Get(g[1], "contentCell"))
                      \o Cell(Td, textCell)), g[2]>>

buildDashboardRow(message, galleryApi_, galleryKey, options, world) ==
  IF Nullish(message) THEN <<Thrown, world>>
  ELSE
    LET opts == Options(options)
        classes == (IF Truthy(Get(opts, "isNew")) THEN <<"message-row-new">> ELSE <<>>)
                   \o (IF Truthy(Get(message, "is_deleted")) THEN <<"message-deleted">> ELSE <<>>)
        createdAt == formatDate(opts, Get(message, "created_at"))
        peerCell == buildPeerCell(message, LinkOn)
        authorCell == buildSenderCell(message, LinkAndBadgeOn)
        replyCell == buildReplyPreview(Get(message, "reply"), Obj(<<<<"mode", ModeCompact>>>>))
        g == prepareGalleryContent(message, galleryApi_, galleryKey, world)
        textCell == Coalesce(Get(message, "text"), Str(<<>>))
    IN IF IsThrown(createdAt) \/ IsThrown(replyCell) THEN <<Thrown, world>>
       ELSE IF IsThrown(g[1]) THEN g
       ELSE <<Element("tr", classes,
                      Cell("<td class='text-secondary small text-nowrap'>", createdAt)
                      \o Cell(TdNowrap, peerCell) \o Cell(TdNowrap, authorCell)
                      \o Cell(Td, replyCell) \o Cell(Td, Get(g[1], "contentCell"))
                      \o Cell(Td, textCell)), g[2]>>

buildLogsRow(log, galleryApi_, galleryKey, options, world) ==
  IF Nullish(log) THEN <<Thrown, world>>
  ELSE
    LET opts == Options(options)
        classes == IF Truthy(Get(log, "is_deleted")) THEN <<"message-deleted">> ELSE <<>>
        createdAt == formatDate(opts, Get(log, "created_at"))
        peerCell == buildPeerCell(log, LinkOn)
        authorCell == buildSenderCell(log, LinkAndBadgeOn)
        botBadge == IF Truthy(Get(log, "is_bot")) THEN Str(<<"Yes">>) ELSE Str(<<"No">>)
        replyCell == buildReplyPreview(Get(log, "reply"),
                       Obj(<<<<"mode", ModeDetailed>>, <<"peerId", Get(log, "peer_id")>>>>))
        g == prepareGalleryContent(log, galleryApi_, galleryKey, world)
        textCell == Coalesce(Get(log, "text"), Str(<<>>))
        messageIdCell == Coalesce(Get(log, "message_id"), Dash)
        logIdCell == Coalesce(Get(log, "id"), Dash)
        deleteButton == Str(<<"<button type='button' class='btn btn-sm btn-outline-danger delete-log-btn' data-log-id='">>
                            \o StringOf(Get(log, "id")) \o <<"'>Delete</button>">>)
    IN IF IsThrown(createdAt) \/ IsThrown(replyCell) THEN <<Thrown, world>>
       ELSE IF IsThrown(g[1]) THEN g
       ELSE <<Element("tr", classes,
                      Cell(TdNowrap, createdAt) \o Cell(TdNowrap, peerCell)
                      \o Cell(TdNowrap, authorCell) \o Cell(TdNowrap, botBadge)
                      \o Cell(Td, replyCell) \o Cell(Td, Get(g[1], "contentCell"))
                      \o Cell(Td, textCell) \o Cell(TdNowrap, messageIdCell)
                      \o Cell(TdNowrap, logIdCell) \o Cell(Td, deleteButton)), g[2]>>

\* A plausible slip: the columns are shown unless switched off, as links and badges are.
buildEntityRow_ColumnsDefaultOn(message, galleryApi_, galleryKey, options, world) ==
  IF Nullish(message) THEN <<Thrown, world>>
  ELSE
    LET opts == Options(options)
        classes == IF Truthy(Get(message, "is_deleted")) THEN <<"message-deleted">> ELSE <<>>
        showChatColumn == Get(opts, "showChatColumn") # Bool(FALSE)
        showSenderColumn == Get(opts, "showSenderColumn") # Bool(FALSE)
        createdAtCell == formatDate(opts, Get(message, "created_at"))
        peerCell == buildPeerCell(message, LinkOn)
        authorCell == buildSenderCell(message, LinkAndBadgeOn)
        g == prepareGalleryContent(message, galleryApi_, galleryKey, world)
        textCell == Coalesce(Get(message, "text"), Dash)
    IN IF IsThrown(createdAtCell) THEN <<Thrown, world>>
       ELSE IF IsThrown(g[1]) THEN g
       ELSE <<Element("tr", classes,
                      Cell(TdNowrap, createdAtCell)
                      \o (IF showChatColumn THEN Cell(TdNowrap, peerCell) ELSE <<>>)
                      \o (IF showSenderColumn THEN Cell(TdNowrap, authorCell) ELSE <<>>)
                      \o Cell(Td, Get(g[1], "contentCell")) \o Cell(Td, textCell)), g[2]>>

buildEntityRow(message, galleryApi_, galleryKey, options, world) ==
  IF Nullish(message) THEN <<Thrown, world>>
  ELSE
    LET opts == Options(options)
        classes == IF Truthy(Get(message, "is_deleted")) THEN <<"message-deleted">> ELSE <<>>
        showChatColumn == Truthy(Get(opts, "showChatColumn"))
        showSenderColumn == Truthy(Get(opts, "showSenderColumn"))
        createdAtCell == formatDate(opts, Get(message, "created_at"))
        peerCell == buildPeerCell(message, LinkOn)
        authorCell == buildSenderCell(message, LinkAndBadgeOn)
        g == prepareGalleryContent(message, galleryApi_, galleryKey, world)
        textCell == Coalesce(Get(message, "text"), Dash)
    IN IF IsThrown(createdAtCell) THEN <<Thrown, world>>
       ELSE IF IsThrown(g[1]) THEN g
       ELSE <<Element("tr", classes,
                      Cell(TdNowrap, createdAtCell)
                      \o (IF showChatColumn THEN Cell(TdNowrap, peerCell) ELSE <<>>)
                      \o (IF showSenderColumn THEN Cell(TdNowrap, authorCell) ELSE <<>>)
                      \o Cell(Td, Get(g[1], "contentCell")) \o Cell(Td, textCell)), g[2]>>

(***************************************************************************)
(* The assemblers of the first definition (cards).  The white space the    *)
(* templates put between the tags is left out of the chunks.               *)
(***************************************************************************)
AvatarColOpen == "<div class='chat-avatar-col'>"

BubbleMetaOpen == "<div class='chat-bubble'><div class='chat-bubble-header'><div class='chat-bubble-meta'>"

BubbleTimeOpen == "<div class='chat-bubble-time text-secondary'>"

BubbleAuthorOpen == "<div class='chat-bubble-author'>"

BubbleReplyOpen == "<div class='chat-bubble-reply'>"

BubbleAttachmentsOpen == "<div class='chat-bubble-attachments'>"

BubbleTextOpen == "<div class='chat-bubble-text'>"

\* A plausible slip: any reply object counts, whatever it holds.
hasReply_AnyReply(message) == Truthy(Get(message, "reply"))

\* Boolean(message.reply && (message.reply.text || message.reply.from_name || message.reply.from_id))
hasReply(message) ==
  LET reply == Get(message, "reply")
  IN /\ Truthy(reply)
     /\ \/ Truthy(Get(reply, "text"))
        \/ Truthy(Get(reply, "from_name"))
        \/ Truthy(Get(reply, "from_id"))

\* v?.length || 0
LengthOf(v) == IF Tag(v) \in {"array", "string"} THEN Len(v[2]) ELSE 0

\* A plausible slip: the forwarded messages are not looked at.
hasAttachments_OnlyAttachments(g) == LengthOf(Get(g, "normalizedAttachments")) > 0

\* (normalizedAttachments?.length || 0) > 0 || (normalizedCopyHistory?.length || 0) > 0
hasAttachments(g) ==
  \/ LengthOf(Get(g, "normalizedAttachments")) > 0
  \/ LengthOf(Get(g, "normalizedCopyHistory")) > 0

\* buildAvatarLabel(message.from_name || message.peer_title, message.from_avatar || message.peer_avatar)
cardAvatar(message) ==
  buildAvatarLabel(OrElse(Get(message, "from_name"), Get(message, "peer_title")),
                   OrElse(Get(message, "from_avatar"), Get(message, "peer_avatar")))

Block(open, v) == <<open>> \o StringOf(v) \o <<DivClose>>

buildDashboardRowCard(message, galleryApi_, galleryKey, options, world) ==
  IF Nullish(message) THEN <<Thrown, world>>
  ELSE
    LET opts == Options(options)
        classes == <<"chat-item">>
                   \o (IF Truthy(Get(opts, "isNew")) THEN <<"message-row-new">> ELSE <<>>)
                   \o (IF Truthy(Get(message, "is_deleted")) THEN <<"message-deleted">> ELSE <<>>)
        createdAt == formatDate(opts, Get(message, "created_at"))
        peerCell == buildPeerCell(message, LinkOn)
        authorCell == buildSenderCell(message, LinkAndBadgeOn)
        replyCell == buildReplyPreview(Get(message, "reply"), Obj(<<<<"mode", ModeCompact>>>>))
        g == prepareGalleryContentCard(message, galleryApi_, galleryKey, world)
        textCell == Coalesce(Get(message, "text"), Str(<<>>))
    IN IF IsThrown(createdAt) \/ IsThrown(replyCell) THEN <<Thrown, world>>
       ELSE IF IsThrown(g[1]) THEN g
       ELSE <<Element("div", classes,
                      Block(AvatarColOpen, cardAvatar(message))
                      \o Block(BubbleMetaOpen, peerCell)
                      \o Block(BubbleTimeOpen, createdAt) \o <<DivClose>>
                      \o Block(BubbleAuthorOpen, authorCell)
                      \o (IF hasReply(message) THEN Block(BubbleReplyOpen, replyCell) ELSE <<>>)
                      \o (IF hasAttachments(g[1])
                            THEN Block(BubbleAttachmentsOpen, Get(g[1], "contentCell"))
                            ELSE <<>>)
                      \o Block(BubbleTextOpen, OrElse(textCell, placeholder))
                      \o <<DivClose>>), g[2]>>

buildLogsRowCard(log, galleryApi_, galleryKey, options, world) ==
  IF Nullish(log) THEN <<Thrown, world>>
  ELSE
    LET opts == Options(options)
        classes == <<"chat-item">>
                   \o (IF Truthy(Get(log, "is_deleted")) THEN <<"message-deleted">> ELSE <<>>)
        createdAt == formatDate(opts, Get(log, "created_at"))
        peerCell == buildPeerCell(log, LinkOn)
        authorCell == buildSenderCell(log, LinkAndBadgeOn)
        botBadge == IF Truthy(Get(log, "is_bot")) THEN Str(<<"Yes">>) ELSE Str(<<"No">>)
        replyCell == buildReplyPreview(Get(log, "reply"),
                       Obj(<<<<"mode", ModeDetailed>>, <<"peerId", Get(log, "peer_id")>>>>))
        g == prepareGalleryContentCard(log, galleryApi_, galleryKey, world)
        textCell == Coalesce(Get(log, "text"), Str(<<>>))
        messageIdCell == Coalesce(Get(log, "message_id"), Dash)
        logIdCell == Coalesce(Get(log, "id"), Dash)
        deleteButton == Str(<<"<button type='button' class='btn btn-sm btn-outline-danger delete-log-btn' data-log-id='">>
                            \o StringOf(Get(log, "id")) \o <<"'>Delete</button>">>)
    IN IF IsThrown(createdAt) \/ IsThrown(replyCell) THEN <<Thrown, world>>
       ELSE IF IsThrown(g[1]) THEN g
       ELSE <<Element("div", classes,
                      Block(AvatarColOpen, cardAvatar(log))
                      \o Block(BubbleMetaOpen, peerCell)
                      \o Block(BubbleTimeOpen, createdAt) \o <<DivClose>>
                      \o Block(BubbleAuthorOpen, authorCell)
                      \o Block("<div class='chat-bubble-flags'>Bot: ", botBadge)
                      \o (IF hasReply(log) THEN Block(BubbleReplyOpen, replyCell) ELSE <<>>)
                      \o (IF hasAttachments(g[1])
                            THEN Block(BubbleAttachmentsOpen, Get(g[1], "contentCell"))
                            ELSE <<>>)
                      \o Block(BubbleTextOpen, OrElse(textCell, placeholder))
                      \o <<"<div class='chat-bubble-footer'><span class='badge bg-dark'>VK ID: ">>
                      \o StringOf(messageIdCell)
                      \o <<"</span><span class='badge bg-secondary'>Record: ">>
                      \o StringOf(logIdCell) \o <<"</span>">> \o StringOf(deleteButton)
                      \o <<DivClose>> \o <<DivClose>>), g[2]>>

buildEntityRowCard(message, galleryApi_, galleryKey, options, world) ==
  IF Nullish(message) THEN <<Thrown, world>>
  ELSE
    LET opts == Options(options)
        classes == <<"chat-item">>
                   \o (IF Truthy(Get(message, "is_deleted")) THEN <<"message-deleted">> ELSE <<>>)
        showChatColumn == Truthy(Get(opts, "showChatColumn"))
        showSenderColumn == Truthy(Get(opts, "showSenderColumn"))
        createdAtCell == formatDate(opts, Get(message, "created_at"))
        peerCell == buildPeerCell(message, LinkOn)
        authorCell == buildSenderCell(message, LinkAndBadgeOn)
        g == prepareGalleryContentCard(message, galleryApi_, galleryKey, world)
        textCell == Coalesce(Get(message, "text"), Dash)
        metaChunks ==
          <<"<span class='chat-bubble-time text-secondary'>">> \o StringOf(createdAtCell) \o <<"</span>">>
          \o (IF showChatColumn
                THEN <<" . ", "<span class='chat-bubble-meta'>">> \o StringOf(peerCell) \o <<"</span>">>
                ELSE <<>>)
          \o (IF showSenderColumn
                THEN <<" . ", "<span class='chat-bubble-author'>">> \o StringOf(authorCell) \o <<"</span>">>
                ELSE <<>>)
    IN IF IsThrown(createdAtCell) THEN <<Thrown, world>>
       ELSE IF IsThrown(g[1]) THEN g
       ELSE <<Element("div", classes,
                      Block(AvatarColOpen, cardAvatar(message))
                      \o <<"<div class='chat-bubble'><div class='chat-bubble-header'>">>
                      \o metaChunks \o <<DivClose>>
                      \o (IF hasAttachments(g[1])
                            THEN Block(BubbleAttachmentsOpen, Get(g[1], "contentCell"))
                            ELSE <<>>)
                      \o Block(BubbleTextOpen, textCell)
                      \o <<DivClose>>), g[2]>>

(***************************************************************************)
(* State of the page: the last call through the API, and the collaborator  *)
(* with its registry                                                       *)
(***************************************************************************)
\* The script has been loaded, nothing is registered, and the page is about
\* to make the call a (the name of the operation, then its arguments).
Loaded(api, a) ==
  /\ op = "load"
  /\ args = a
  /\ ret = Undef
  /\ galleryApi = api
  /\ registry = EmptyRegistry
  /\ calls = <<>>
  /\ lastByKey = EmptyRegistry
  /\ repeat = FALSE
  /\ chatHistory = "table"

\* The pending call of a builder that touches no collaborator returns r.
Apply(name, r) ==
  /\ op = "load"
  /\ args[1] = name
  /\ op' = name
  /\ ret' = r
  /\ UNCHANGED <<args, galleryApi, registry, calls, lastByKey, repeat, chatHistory>>

\* lastByKey after the calls of a log: under each key, the message of the most
\* recent prepareGalleryContent call with that key.
RECURSIVE Latest(_, _)
Latest(last, log) ==
  IF log = <<>> THEN last
  ELSE Latest(IF Head(log)[1] = "prepareGalleryContent"
                THEN [last EXCEPT ![Head(log)[2]] = Head(log)[3]]
                ELSE last,
              Tail(log))

\* The registry as a call finds it, with an empty log.
World == <<registry, <<>>>>

\* The page calls an operation with arguments a; r = <<value, world>> is what
\* the operation returns and leaves.
Call(name, a, r) ==
  /\ op' = name
  /\ args' = <<name>> \o a
  /\ ret' = r[1]
  /\ registry' = r[2][1]
  /\ calls' = r[2][2]
  /\ lastByKey' = Latest(lastByKey, r[2][2])
  /\ repeat' = (name \in {"prepareGalleryContent", "prepareGalleryContentCard"}
                /\ op = name /\ args = <<name>> \o a)
  /\ UNCHANGED <<galleryApi, chatHistory>>

(***************************************************************************)
(* Inputs of the cell builders                                             *)
(***************************************************************************)
Names == {Undef, Null, Str(<<>>), Str(<<"T", "e", "a", "m">>)}

Avatars == {Undef, Str(<<"u", "r", "l">>)}

Ids == {Undef, Null, Num(0), Num(5), Num(12)}

Flags == {Undef, Bool(FALSE), Bool(TRUE)}

PeerMessages ==
  {Null} \cup {Obj(<<<<"peer_title", n>>, <<"peer_avatar", a>>, <<"peer_id", i>>>>) :
                 n \in Names, a \in Avatars, i \in Ids}

PeerOptions == {Undef} \cup {Obj(<<<<"allowLink", l>>>>) : l \in Flags}

SenderMessages ==
  {Null} \cup {Obj(<<<<"from_name", n>>, <<"from_avatar", a>>, <<"from_id", i>>, <<"is_bot", b>>>>) :
                 n \in Names, a \in Avatars, i \in {Undef, Num(0), Num(9)}, b \in Flags}

SenderOptions ==
  {Undef} \cup {Obj(<<<<"allowLink", l>>, <<"showBotBadge", s>>>>) : l \in Flags, s \in Flags}

CellCalls ==
  {<<"buildAvatarLabel", label, avatarUrl>> :
     label \in Names \cup {Num(0), Num(7)}, avatarUrl \in Avatars \cup {Null, Str(<<>>)}}
  \cup {<<"buildPeerCell", message, options>> :
          message \in PeerMessages, options \in PeerOptions}
  \cup {<<"buildSenderCell", message, options>> :
          message \in SenderMessages, options \in SenderOptions}

ApplyBuildAvatarLabel == Apply("buildAvatarLabel", buildAvatarLabel(args[2], args[3]))

ApplyBuildPeerCell == Apply("buildPeerCell", buildPeerCell(args[2], args[3]))

ApplyBuildSenderCell == Apply("buildSenderCell", buildSenderCell(args[2], args[3]))

CellsNext == ApplyBuildAvatarLabel \/ ApplyBuildPeerCell \/ ApplyBuildSenderCell

\* The three label and cell builders, each applied to every input of the sets above.
SpecCells == (\E a \in CellCalls : Loaded(Undef, a)) /\ [][CellsNext]_vars

\* The call just made returned a string (it raised nothing).
Returned(name) == op = name /\ Tag(ret) = "string"

\* An identifier that is present: neither missing, null nor zero.
IdPresent(v) == v \notin {Undef, Null, Num(0)}

\* A name or label that is absent or empty.
NameAbsent(v) == v \in {Undef, Null, Str(<<>>)}

\* An option that is true, which it is by default: given as true, or not given.
OptionOn(options, name) == Get(Options(options), name) \in {Undef, Bool(TRUE)}

\* C3: buildPeerCell links to /chat/<peer_id>, and buildSenderCell to
\* /user/<from_id>, exactly when allowLink is true (the default) and the
\* identifier is present; otherwise the output holds no hyperlink at all, so
\* with allowLink = false none is produced whatever the identifier.
C3_LinkIffAllowedAndIdPresent ==
  /\ Returned("buildPeerCell") =>
       LET id == Get(args[2], "peer_id")
           linked == OptionOn(args[3], "allowLink") /\ IdPresent(id)
       IN /\ linked <=> ContainsLink(ret[2], ChatLinkOpen, StringOf(id), LinkAttrs)
          /\ linked <=> HasAnyLink(ret[2])
  /\ Returned("buildSenderCell") =>
       LET id == Get(args[2], "from_id")
           linked == OptionOn(args[3], "allowLink") /\ IdPresent(id)
       IN /\ linked <=> ContainsLink(ret[2], UserLinkOpen, StringOf(id), LinkAttrs)
          /\ linked <=> HasAnyLink(ret[2])

\* A sender cell built with allowLink = false for a message that has a sender id.
C3_Witness ==
  /\ Returned("buildSenderCell")
  /\ Get(Options(args[3]), "allowLink") = Bool(FALSE)
  /\ Get(args[2], "from_id") = Num(9)
  /\ ~HasAnyLink(ret[2])

\* C4: an absent or empty name degrades to its default: 'Untitled chat' in the
\* peer cell, 'Unknown sender' in the sender cell, the dash in the avatar label;
\* and a peer cell with an absent title holds a link only with a peer id.
C4_AbsentNamesDegrade ==
  /\ (Returned("buildPeerCell") /\ NameAbsent(Get(args[2], "peer_title"))) =>
       /\ Contains(ret[2], UntitledChat[2][1])
       /\ HasAnyLink(ret[2]) => IdPresent(Get(args[2], "peer_id"))
  /\ (Returned("buildSenderCell") /\ NameAbsent(Get(args[2], "from_name"))) =>
       Contains(ret[2], UnknownSender[2][1])
  /\ (Returned("buildAvatarLabel") /\ NameAbsent(args[2])) =>
       Contains(ret[2], Dash[2][1])

\* A peer cell for a message with an empty title and an avatar.
C4_Witness ==
  /\ Returned("buildPeerCell")
  /\ Get(args[2], "peer_title") = Str(<<>>)
  /\ Truthy(Get(args[2], "peer_avatar"))
  /\ Contains(ret[2], UntitledChat[2][1])

\* C5: the sender cell holds the Bot badge (once) exactly when is_bot is true
\* and showBotBadge is true (the default), linked or not; and when the cell
\* holds a link, the badge comes after the link's closing tag.
C5_BadgeIffBotAndShown ==
  Returned("buildSenderCell") =>
    LET badged == Get(args[2], "is_bot") = Bool(TRUE) /\ OptionOn(args[3], "showBotBadge")
    IN /\ Count(ret[2], BotBadge) = (IF badged THEN 1 ELSE 0)
       /\ HasAnyLink(ret[2]) =>
            /\ Count(ret[2], LinkClose) = 1
            /\ \A i, j \in 1..Len(ret[2]) :
                 (ret[2][i] = BotBadge /\ ret[2][j] = LinkClose) => j < i

\* A linked sender cell of a bot, with its badge.
C5_Witness ==
  /\ Returned("buildSenderCell")
  /\ HasAnyLink(ret[2])
  /\ Contains(ret[2], BotBadge)

(***************************************************************************)
(* Inputs of buildReplyPreview                                             *)
(***************************************************************************)
\* Longest reply text tried; it has to exceed ReplyTextLimit.
MaxTextLen == 122

TextLens == {0, 1, 2} \cup {n \in (ReplyTextLimit - 1)..MaxTextLen : n >= 0}

\* A text of n characters, no two neighbours alike.
TextOfLen(n) == [i \in 1..n |-> Digit[(i % 10) + 1]]

ReplyTexts == {Undef, Null, Num(5)} \cup {Str(TextOfLen(n)) : n \in TextLens}

Attachment == Obj(<<<<"type", Str(<<"p", "h", "o", "t", "o">>)>>>>)

Replies ==
  {Undef, Null}
  \cup {Obj(<<<<"id", id>>, <<"text", text>>, <<"from_id", from_id>>, <<"from_name", from_name>>,
              <<"from_avatar", from_avatar>>, <<"is_bot", is_bot>>, <<"attachments", attachments>>>>) :
          id \in {Undef, Num(0), Num(7)}, text \in ReplyTexts, from_id \in {Undef, Num(9)},
          from_name \in {Undef, Str(<<>>), Str(<<"B", "o", "b">>)}, from_avatar \in Avatars,
          is_bot \in Flags,
          attachments \in {Undef, Arr(<<>>), Arr(<<Attachment, Attachment>>)}}

ReplyOptions ==
  {Undef}
  \cup {Obj(<<<<"mode", mode>>, <<"peerId", peerId>>, <<"showBotBadge", showBotBadge>>>>) :
          mode \in {Undef, ModeCompact, ModeDetailed}, peerId \in {Undef, Num(5)},
          showBotBadge \in {Undef, Bool(FALSE)}}

ReplyCalls == {<<"buildReplyPreview", reply, options>> : reply \in Replies, options \in ReplyOptions}

ApplyBuildReplyPreview == Apply("buildReplyPreview", buildReplyPreview(args[2], args[3]))

\* buildReplyPreview, applied to every reply and every options of the sets above.
SpecReply == (\E a \in ReplyCalls : Loaded(Undef, a)) /\ [][ApplyBuildReplyPreview]_vars

\* A field the reply has: not missing, null, zero or empty.
Has(v) == v \notin {Undef, Null, Num(0), Str(<<>>)}

\* The mode of the call just made ('compact' when none is given).
ModeIs(mode) ==
  IF mode = ModeCompact
    THEN Get(Options(args[3]), "mode") \in {Undef, ModeCompact}
    ELSE Get(Options(args[3]), "mode") = mode

IsDetailedBlock(v) == v[2][1] = DetailedOpen /\ v[2][Len(v[2])] = BlockClose

IsCompactBlock(v) == v[2][1] = CompactOpen /\ v[2][Len(v[2])] = BlockClose

\* The symbols of s between the chunk open and the next chunk close.
Segment(s, open, close) ==
  LET i == CHOOSE k \in 1..Len(s) : s[k] = open
      j == CHOOSE k \in (i + 1)..Len(s) : s[k] = close /\ \A l \in (i + 1)..(k - 1) : s[l] # close
  IN SubSeq(s, i + 1, j - 1)

\* The text segment of a block.
TextSegment(v) ==
  IF IsDetailedBlock(v)
    THEN Segment(v[2], DetailedTextOpen, DetailedTextClose)
    ELSE Segment(v[2], CompactOpen, CompactTextClose)

\* C1: buildReplyPreview returns the placeholder when the reply is absent,
\* when the mode is 'detailed' and the reply has none of id, text, from_id, and
\* when the mode is 'compact' and the reply has neither text nor from_name; in
\* every other case it returns the block of its mode, not the placeholder.
C1_ReplyBranchTable ==
  Returned("buildReplyPreview") =>
    LET reply == args[2]
        empty ==
          \/ Nullish(reply)
          \/ /\ ModeIs(ModeDetailed)
             /\ ~Has(Get(reply, "id")) /\ ~Has(Get(reply, "text")) /\ ~Has(Get(reply, "from_id"))
          \/ /\ ModeIs(ModeCompact)
             /\ ~Has(Get(reply, "text")) /\ ~Has(Get(reply, "from_name"))
    IN IF empty THEN ret = placeholder
       ELSE /\ ret # placeholder
            /\ ModeIs(ModeDetailed) => IsDetailedBlock(ret)
            /\ ModeIs(ModeCompact) => IsCompactBlock(ret)

\* Detailed mode, a reply that has a from_name only: the placeholder.
C1_Witness ==
  /\ Returned("buildReplyPreview")
  /\ ModeIs(ModeDetailed)
  /\ ~Nullish(args[2])
  /\ Has(Get(args[2], "from_name"))
  /\ ret = placeholder

\* C2: in a block (compact or detailed) the text segment is the first 120
\* characters of reply.text and nothing more, a text of at most 120 characters
\* being shown whole; for a reply with no text it is the 'No text' label.
C2_TextIsFirst120 ==
  (Returned("buildReplyPreview") /\ ret # placeholder) =>
    LET text == Get(args[2], "text")
        seg == TextSegment(ret)
    IN IF Has(text)
         THEN /\ Len(seg) = (IF Len(text[2]) <= 120 THEN Len(text[2]) ELSE 120)
              /\ \A i \in 1..Len(seg) : seg[i] = text[2][i]
         ELSE seg = <<"No text">>

\* A block for a reply whose text is longer than 120 characters.
C2_Witness ==
  /\ Returned("buildReplyPreview")
  /\ ret # placeholder
  /\ Tag(Get(args[2], "text")) = "string"
  /\ Len(Get(args[2], "text")[2]) > 120
  /\ Len(TextSegment(ret)) = 120

\* C6 as claimed: in compact mode the output holds a Bot badge exactly when the
\* reply's is_bot is true; in detailed mode it never does.
C6_BadgeIffBotInCompactMode ==
  Returned("buildReplyPreview") =>
    /\ ModeIs(ModeCompact) =>
         (Contains(ret[2], BotBadge) <=> (~Nullish(args[2]) /\ Get(args[2], "is_bot") = Bool(TRUE)))
    /\ ModeIs(ModeDetailed) => ~Contains(ret[2], BotBadge)

\* C6, amended: the compact block holds a Bot badge exactly when the reply's
\* is_bot is true, whatever showBotBadge is; the placeholder of either mode and
\* the detailed block never hold one.
C6_BadgeIffBotInCompactBlock ==
  Returned("buildReplyPreview") =>
    /\ (ModeIs(ModeCompact) /\ ret # placeholder) =>
         (Contains(ret[2], BotBadge) <=> Get(args[2], "is_bot") = Bool(TRUE))
    /\ (ModeIs(ModeDetailed) \/ ret = placeholder) => ~Contains(ret[2], BotBadge)

\* A compact block with the badge, built with showBotBadge = false.
C6_Witness ==
  /\ Returned("buildReplyPreview")
  /\ ModeIs(ModeCompact)
  /\ Get(Options(args[3]), "showBotBadge") = Bool(FALSE)
  /\ Contains(ret[2], BotBadge)

(***************************************************************************)
(* The page: calls through the API against one collaborator                *)
(***************************************************************************)
Chars(a, b) == Str(<<a, b>>)

MsgFull ==
  Obj(<<<<"id", Num(3)>>, <<"message_id", Num(77)>>,
        <<"peer_title", Str(<<"T", "e", "a", "m">>)>>, <<"peer_id", Num(5)>>,
        <<"from_name", Str(<<"B", "o", "t", "1">>)>>, <<"from_avatar", Str(<<"u", "r", "l">>)>>,
        <<"from_id", Num(9)>>, <<"is_bot", Bool(TRUE)>>, <<"text", Chars("h", "i")>>,
        <<"created_at", Chars("2", "4")>>, <<"is_deleted", Bool(TRUE)>>,
        <<"attachments", Arr(<<Attachment, Null>>)>>,
        <<"copy_history", Arr(<<Obj(<<<<"text", Chars("f", "w")>>>>)>>)>>,
        <<"reply", Obj(<<<<"id", Num(7)>>, <<"text", Chars("r", "e")>>,
                         <<"from_name", Str(<<"B", "o", "b">>)>>, <<"is_bot", Bool(TRUE)>>>>)>>>>)

MsgSparse == Obj(<<<<"text", Null>>, <<"reply", Obj(<<<<"from_id", Num(9)>>>>)>>>>)

\* The messages handed to the gallery on their own or in a list.
GalleryMessages == {MsgFull, MsgSparse}

\* The messages handed to a builder: one may be missing altogether.
Messages == {Null} \cup GalleryMessages

\* The keys a page passes with a single message.
RowKeys == {FreeKey, EntityKey(0)}

OpValues == {Undef, Fn("returns"), Fn("throws")}

ApiOf(a, c, r, b) ==
  Obj(<<<<"extractAttachments", a>>, <<"extractCopyHistory", c>>,
        <<"registerMessageGallery", r>>, <<"buildContentCell", b>>>>)

\* Every collaborator: none, or each operation missing, returning or throwing.
AllApis ==
  {Undef, Null} \cup {ApiOf(a, c, r, b) : a \in OpValues, c \in OpValues, r \in OpValues, b \in OpValues}

FullApi == ApiOf(Fn("returns"), Fn("returns"), Fn("returns"), Fn("returns"))

\* The collaborators a page is run with.
PageApis ==
  {Null, FullApi, ApiOf(Fn("returns"), Fn("throws"), Fn("returns"), Fn("returns"))}

\* No operation of the collaborator that is present throws.
ApiReturns(api) ==
  \A name \in {"extractAttachments", "extractCopyHistory", "registerMessageGallery", "buildContentCell"} :
    OptGet(api, name) \in {Undef, Fn("returns")}

RowOptions ==
  {Undef, Obj(<<<<"isNew", Bool(TRUE)>>, <<"formatDate", Fn("returns")>>>>)}

EntityOptions ==
  {Undef,
   Obj(<<<<"showChatColumn", Bool(TRUE)>>, <<"showSenderColumn", Bool(FALSE)>>>>),
   Obj(<<<<"showChatColumn", Bool(TRUE)>>, <<"showSenderColumn", Bool(TRUE)>>>>)}

RECURSIVE ListsUpTo(_)
ListsUpTo(n) ==
  IF n = 0 THEN {<<>>}
  ELSE ListsUpTo(n - 1) \cup {Append(l, m) : l \in {x \in ListsUpTo(n - 1) : Len(x) = n - 1},
                                              m \in GalleryMessages}

\* What registerEntityGalleries is handed: nothing, null, an object that is
\* no array, or a list.
MessageLists == {Undef, Null, MsgSparse} \cup {Arr(l) : l \in ListsUpTo(MaxList)}

CallPrepareGalleryContent ==
  \E message \in GalleryMessages, galleryKey \in RowKeys :
    Call("prepareGalleryContent", <<message, galleryKey>>,
         prepareGalleryContent(message, galleryApi, galleryKey, World))

\* The first definition of prepareGalleryContent, applied as a function.
CallPrepareGalleryContentCard ==
  \E message \in GalleryMessages, galleryKey \in RowKeys :
    Call("prepareGalleryContentCard", <<message, galleryKey>>,
         prepareGalleryContentCard(message, galleryApi, galleryKey, World))

CallBuildDashboardRow ==
  \E message \in Messages, galleryKey \in {FreeKey}, options \in RowOptions :
    Call("buildDashboardRow", <<message, galleryKey, options>>,
         buildDashboardRow(message, galleryApi, galleryKey, options, World))

CallBuildLogsRow ==
  \E log \in Messages, galleryKey \in {FreeKey}, options \in RowOptions :
    Call("buildLogsRow", <<log, galleryKey, options>>,
         buildLogsRow(log, galleryApi, galleryKey, options, World))

CallBuildEntityRow ==
  \E message \in Messages, galleryKey \in {FreeKey}, options \in EntityOptions :
    Call("buildEntityRow", <<message, galleryKey, options>>,
         buildEntityRow(message, galleryApi, galleryKey, options, World))

CallRegisterEntityGalleries ==
  \E messages \in MessageLists :
    Call("registerEntityGalleries", <<messages>>,
         registerEntityGalleries(messages, galleryApi, World))

CallBuildAvatarLabel ==
  \E label \in {Undef}, avatarUrl \in Avatars :
    Call("buildAvatarLabel", <<label, avatarUrl>>, <<buildAvatarLabel(label, avatarUrl), World>>)

CallBuildPeerCell ==
  \E message \in {Null, MsgFull}, options \in {Undef} :
    Call("buildPeerCell", <<message, options>>, <<buildPeerCell(message, options), World>>)

CallBuildSenderCell ==
  \E message \in {Null, MsgSparse}, options \in {Undef} :
    Call("buildSenderCell", <<message, options>>, <<buildSenderCell(message, options), World>>)

CallBuildReplyPreview ==
  \E reply \in {Null, Get(MsgFull, "reply"), Obj(<<<<"text", Num(5)>>>>)}, options \in {Undef} :
    Call("buildReplyPreview", <<reply, options>>, <<buildReplyPreview(reply, options), World>>)

\* prepareGalleryContent alone, in both definitions, against every collaborator.
PrepareNext == CallPrepareGalleryContent \/ CallPrepareGalleryContentCard

SpecPrepare == (\E api \in AllApis : Loaded(api, <<>>)) /\ [][PrepareNext]_vars

\* The nine operations of chatHistory, called in any order against one collaborator.
Next ==
  \/ CallBuildAvatarLabel
  \/ CallBuildPeerCell
  \/ CallBuildSenderCell
  \/ CallBuildReplyPreview
  \/ CallPrepareGalleryContent
  \/ CallBuildDashboardRow
  \/ CallBuildLogsRow
  \/ CallBuildEntityRow
  \/ CallRegisterEntityGalleries

Spec == (\E api \in PageApis : Loaded(api, <<>>)) /\ [][Next]_vars

(***************************************************************************)
(* Claims about prepareGalleryContent and the registry                     *)
(***************************************************************************)
PrepareOps == {"prepareGalleryContent", "prepareGalleryContentCard"}

GalleryOps == {"extractAttachments", "extractCopyHistory", "registerMessageGallery", "buildContentCell"}

\* The collaborator has the operation (a function, whatever a call of it does).
Supplies(api, name) == OptGet(api, name) \in {Fn("returns"), Fn("throws")}

\* The names of the calls of a log.
NamesOf(log) == [i \in 1..Len(log) |-> log[i][1]]

Registers(api) == ApiReturns(api) /\ Supplies(api, "registerMessageGallery")

\* entry is message with attachments and copy_history replaced by the lists
\* the collaborator api normalises them to, every other field as it was.
IsEntryOf(entry, message, api) ==
  /\ Tag(entry) = "object"
  /\ Get(entry, "attachments")
       = (IF Supplies(api, "extractAttachments") THEN ExtractAttachments(message) ELSE Arr(<<>>))
  /\ Get(entry, "copy_history")
       = (IF Supplies(api, "extractCopyHistory") THEN ExtractCopyHistory(message) ELSE Arr(<<>>))
  /\ \A i \in 1..Len(Spread(message)[2]) :
       LET f == Spread(message)[2][i]
       IN f[1] \notin {"attachments", "copy_history"} => Get(entry, f[1]) = f[2]
  /\ \A i \in 1..Len(entry[2]) :
       LET f == entry[2][i]
       IN f[1] \notin {"attachments", "copy_history"} => Get(message, f[1]) = f[2]

\* The prepareGalleryContent calls of a log, in order.
PrepareCalls(log) == SelectSeq(log, LAMBDA c : c[1] = "prepareGalleryContent")

\* The prepareGalleryContent calls the last operation was to make: one with
\* the message and the key given, or one per message of the list under
\* entity-msg-<index>.
Intended ==
  IF op \in {"prepareGalleryContent", "buildDashboardRow", "buildLogsRow", "buildEntityRow"}
    THEN IF Nullish(args[2]) THEN <<>> ELSE <<<<args[3], args[2]>>>>
  ELSE IF op = "registerEntityGalleries" /\ Tag(args[2]) = "array"
    THEN [i \in 1..Len(args[2][2]) |-> <<EntityKey(i - 1), args[2][2][i]>>]
  ELSE <<>>

\* C8: the registry holds, under each key, the message of the most recent
\* prepareGalleryContent call with that key, its attachments and copy_history
\* replaced by that call's normalised lists, and nothing under a key no call
\* used; each call registers once, under the key it was given, right after
\* its own extraction, and never under another key.  (The registry is a
\* replace-by-key one whose operations return; a call makes no registration
\* that is not its own whatever the collaborator.)
C8_RegistryHoldsLatestPerKey ==
  /\ \A i \in 1..Len(calls) :
       calls[i][1] = "registerMessageGallery" =>
         \E j \in 1..(i - 1) :
           /\ calls[j][1] = "prepareGalleryContent"
           /\ calls[j][2] = calls[i][2]
           /\ IsEntryOf(calls[i][3], calls[j][3], galleryApi)
           /\ \A m \in (j + 1)..(i - 1) :
                calls[m][1] \notin {"prepareGalleryContent", "registerMessageGallery"}
  /\ \A i \in 1..Len(PrepareCalls(calls)) :
       /\ i <= Len(Intended)
       /\ PrepareCalls(calls)[i][2] = Intended[i][1]
       /\ PrepareCalls(calls)[i][3] = Intended[i][2]
  /\ Registers(galleryApi) =>
       /\ Len(PrepareCalls(calls)) = Len(Intended)
       /\ Count(NamesOf(calls), "registerMessageGallery") = Len(PrepareCalls(calls))
       /\ \A k \in Keys :
            IF lastByKey[k] = NoEntry THEN registry[k] = NoEntry
            ELSE IsEntryOf(registry[k], lastByKey[k], galleryApi)

\* C8 witness: a list of two has been registered, then a message under the
\* key of the first of the list, twice over; the registry has the entries of
\* the list's second message and of the single one, and nothing else.
C8_Witness ==
  /\ galleryApi = FullApi
  /\ repeat
  /\ op = "prepareGalleryContent"
  /\ args[3] = EntityKey(0)
  /\ args[2] = MsgFull
  /\ Get(registry[EntityKey(0)], "text") = Chars("h", "i")
  /\ Len(Get(registry[EntityKey(0)], "attachments")[2]) = 1
  /\ lastByKey[EntityKey(1)] = MsgSparse
  /\ Get(registry[EntityKey(1)], "attachments") = Arr(<<>>)
  /\ registry[FreeKey] = NoEntry

\* C9: prepareGalleryContent invokes no operation the collaborator lacks (a
\* null or undefined collaborator lacks all four).  When the operations that
\* are there return, the call returns too and invokes each of them; without
\* extractAttachments or extractCopyHistory the list is empty, without
\* registerMessageGallery nothing is registered, without buildContentCell
\* contentCell is the fallback (the placeholder; '' in the first definition).
C9_OnlyPresentOperationsInvoked ==
  op \in PrepareOps =>
    /\ \A i \in 1..Len(calls) :
         calls[i][1] \in GalleryOps => Supplies(galleryApi, calls[i][1])
    /\ ApiReturns(galleryApi) =>
         /\ ~IsThrown(ret)
         /\ \A name \in GalleryOps :
              Count(NamesOf(calls), name) = (IF Supplies(galleryApi, name) THEN 1 ELSE 0)
         /\ ~Supplies(galleryApi, "extractAttachments")
              => Get(ret, "normalizedAttachments") = Arr(<<>>)
         /\ ~Supplies(galleryApi, "extractCopyHistory")
              => Get(ret, "normalizedCopyHistory") = Arr(<<>>)
         /\ ~Supplies(galleryApi, "registerMessageGallery") => registry = EmptyRegistry
         /\ ~Supplies(galleryApi, "buildContentCell")
              => Get(ret, "contentCell")
                   = (IF op = "prepareGalleryContent" THEN placeholder ELSE Str(<<>>))

\* C9 witness: a collaborator that only registers has been handed a message
\* with attachments: the lists are empty, the cell is the placeholder and the
\* message is in the registry.
C9_Witness ==
  /\ op = "prepareGalleryContent"
  /\ galleryApi = ApiOf(Undef, Undef, Fn("returns"), Undef)
  /\ args[2] = MsgFull
  /\ Get(ret, "normalizedAttachments") = Arr(<<>>)
  /\ Get(ret, "contentCell") = placeholder
  /\ Get(registry[args[3]], "attachments") = Arr(<<>>)

\* C10: no operation of the layer raises, whatever the message, the reply,
\* the options and the collaborator (missing or throwing operations
\* included): every call returns a value.
C10_NoOperationRaises == ~IsThrown(ret)

(***************************************************************************)
(* The assemblers of both definitions, each applied to one message         *)
(***************************************************************************)
\* The pending call of an operation that reaches the collaborator returns
\* r[1] and leaves the world r[2].
ApplyWorld(name, r) ==
  /\ op = "load"
  /\ args[1] = name
  /\ op' = name
  /\ ret' = r[1]
  /\ registry' = r[2][1]
  /\ calls' = r[2][2]
  /\ lastByKey' = Latest(lastByKey, r[2][2])
  /\ UNCHANGED <<args, galleryApi, repeat, chatHistory>>

RowReplies ==
  {Undef, Null, Obj(<<>>), Obj(<<<<"id", Num(7)>>>>), Obj(<<<<"from_id", Num(9)>>>>),
   Obj(<<<<"from_name", Str(<<"B", "o", "b">>)>>>>),
   Obj(<<<<"text", Chars("r", "e")>>, <<"is_bot", Bool(TRUE)>>>>),
   Obj(<<<<"id", Num(7)>>, <<"text", Chars("r", "e")>>, <<"from_id", Num(9)>>,
         <<"from_name", Str(<<"B", "o", "b">>)>>>>)}

RowTexts == {Undef, Null, Str(<<>>), Chars("h", "i"), Str(<<"<", "b", ">", "&">>)}

\* peer_id, from_id and is_bot of a message: all there, or none.
RowIdentities == {<<Num(5), Num(9), Bool(TRUE)>>, <<Undef, Undef, Undef>>}

\* attachments and copy_history of a message.
RowMedia ==
  {<<Undef, Undef>>, <<Arr(<<Attachment>>), Arr(<<>>)>>,
   <<Undef, Arr(<<Obj(<<<<"text", Chars("f", "w")>>>>)>>)>>}

RowMessages ==
  {Obj(<<<<"peer_title", Str(<<"T", "e", "a", "m">>)>>, <<"peer_id", who[1]>>,
         <<"from_name", Str(<<"B", "o", "t", "1">>)>>, <<"from_id", who[2]>>,
         <<"is_bot", who[3]>>, <<"text", text>>, <<"created_at", Chars("2", "4")>>,
         <<"reply", reply>>, <<"attachments", media[1]>>, <<"copy_history", media[2]>>>>) :
     who \in RowIdentities, text \in RowTexts, reply \in RowReplies, media \in RowMedia}

ColumnOptions ==
  {Undef} \cup {Obj(<<<<"showChatColumn", c>>, <<"showSenderColumn", d>>>>) :
                  c \in {Bool(FALSE), Bool(TRUE)}, d \in {Undef, Bool(FALSE), Bool(TRUE)}}

DashboardOps == {"buildDashboardRow", "buildDashboardRowCard"}

LogsOps == {"buildLogsRow", "buildLogsRowCard"}

EntityOps == {"buildEntityRow", "buildEntityRowCard"}

CardOps == {"buildDashboardRowCard", "buildLogsRowCard", "buildEntityRowCard"}

TableOps == {"buildDashboardRow", "buildLogsRow", "buildEntityRow"}

RowCalls ==
  {<<name, message, FreeKey, options>> :
     name \in DashboardOps \cup LogsOps, message \in RowMessages, options \in RowOptions}
  \cup {<<name, message, FreeKey, options>> :
          name \in EntityOps, message \in RowMessages, options \in ColumnOptions}

\* The collaborators the rows are built with: none, a complete one, and one
\* that normalises and registers but builds no cell.
RowApis == {Undef, FullApi, ApiOf(Fn("returns"), Fn("returns"), Fn("returns"), Undef)}

ApplyBuildDashboardRow ==
  ApplyWorld("buildDashboardRow", buildDashboardRow(args[2], galleryApi, args[3], args[4], World))

ApplyBuildLogsRow ==
  ApplyWorld("buildLogsRow", buildLogsRow(args[2], galleryApi, args[3], args[4], World))

ApplyBuildEntityRow ==
  ApplyWorld("buildEntityRow", buildEntityRow(args[2], galleryApi, args[3], args[4], World))

ApplyBuildDashboardRowCard ==
  ApplyWorld("buildDashboardRowCard",
             buildDashboardRowCard(args[2], galleryApi, args[3], args[4], World))

ApplyBuildLogsRowCard ==
  ApplyWorld("buildLogsRowCard", buildLogsRowCard(args[2], galleryApi, args[3], args[4], World))

ApplyBuildEntityRowCard ==
  ApplyWorld("buildEntityRowCard", buildEntityRowCard(args[2], galleryApi, args[3], args[4], World))

RowsNext ==
  \/ ApplyBuildDashboardRow
  \/ ApplyBuildLogsRow
  \/ ApplyBuildEntityRow
  \/ ApplyBuildDashboardRowCard
  \/ ApplyBuildLogsRowCard
  \/ ApplyBuildEntityRowCard

\* The six assemblers, each applied to every message and options of the sets above.
SpecRows == (\E api \in RowApis, a \in RowCalls : Loaded(api, a)) /\ [][RowsNext]_vars

\* The operation named has returned an element.
Built(names) == op \in names /\ Tag(ret) = "element"

\* innerHTML of the element returned.
Html == ret[4]

TdOpens == {Td, TdNowrap, "<td class='text-secondary small text-nowrap'>"}

\* The number of cells of a row.
CellCount(s) == Cardinality({i \in 1..Len(s) : s[i] \in TdOpens})

\* What the n-th cell of a row holds.
CellContent(s, n) ==
  LET starts == {i \in 1..Len(s) : s[i] \in TdOpens}
      i == CHOOSE k \in starts : Cardinality({j \in starts : j < k}) = n - 1
      e == CHOOSE k \in (i + 1)..Len(s) : s[k] = TdClose /\ \A l \in (i + 1)..(k - 1) : s[l] # TdClose
  IN SubSeq(s, i + 1, e - 1)

\* The reply the message of the call has any of text, from_name, from_id.
ReplyHasData ==
  LET reply == Get(args[2], "reply")
  IN /\ reply \notin {Undef, Null}
     /\ \/ Has(Get(reply, "text"))
        \/ Has(Get(reply, "from_name"))
        \/ Has(Get(reply, "from_id"))

\* The output holds a reply fragment: the reply container of a card, the
\* reply cell of a table row (the 4th of 6 cells, the 5th of 10 in a log row).
HasReplyFragment ==
  IF op \in CardOps THEN Contains(Html, BubbleReplyOpen)
  ELSE IF op = "buildDashboardRow" THEN CellCount(Html) = 6
  ELSE IF op = "buildLogsRow" THEN CellCount(Html) = 10
  ELSE FALSE

\* C11 as stated: for a message whose reply is absent, or has none of text,
\* from_name and from_id, the output of an assembler holds no reply fragment.
C11_NoReplyFragmentWithoutData ==
  (Built(DashboardOps \cup LogsOps \cup EntityOps) /\ ~ReplyHasData) => ~HasReplyFragment

\* C11 amended: the card assemblers (dashboard, log) emit the reply container
\* exactly when the reply has any of text, from_name, from_id; the table
\* assemblers always emit the reply cell, which holds the placeholder when
\* the reply is absent, and when it has none of the three fields holds the
\* placeholder too, except in a log row for a reply with an id (a detailed
\* block); the entity assemblers emit no reply fragment.
C11_ReplyContainerIffData ==
  /\ Built(CardOps \cap (DashboardOps \cup LogsOps))
       => (Contains(Html, BubbleReplyOpen) <=> ReplyHasData)
  /\ Built(EntityOps) => (~Contains(Html, BubbleReplyOpen) /\ CellCount(Html) <= 5)
  /\ Built({"buildDashboardRow"}) =>
       /\ CellCount(Html) = 6
       /\ ~ReplyHasData => CellContent(Html, 4) = placeholder[2]
  /\ Built({"buildLogsRow"}) =>
       /\ CellCount(Html) = 10
       /\ Get(args[2], "reply") \in {Undef, Null} => CellContent(Html, 5) = placeholder[2]
       /\ ~ReplyHasData =>
            IF Has(Get(Get(args[2], "reply"), "id"))
              THEN CellContent(Html, 5)[1] = DetailedOpen
              ELSE CellContent(Html, 5) = placeholder[2]

\* C11 witness: a log card has been built for a message whose reply has only
\* an id: no reply container, although the reply is there.
C11_Witness ==
  /\ Built({"buildLogsRowCard"})
  /\ Get(args[2], "reply") = Obj(<<<<"id", Num(7)>>>>)
  /\ ~Contains(Html, BubbleReplyOpen)
  /\ Contains(Html, BubbleTextOpen)

\* The body content of the output: what the text container of a card holds,
\* or the text cell of a row (the 6th of a dashboard row, the 7th of a log
\* row, the last of an entity row).
Body ==
  IF op \in CardOps THEN Segment(Html, BubbleTextOpen, DivClose)
  ELSE IF op = "buildDashboardRow" THEN CellContent(Html, 6)
  ELSE IF op = "buildLogsRow" THEN CellContent(Html, 7)
  ELSE CellContent(Html, CellCount(Html))

\* C12: for a message whose text is absent (null or undefined) the body
\* content of a dashboard or log output is the placeholder, never the empty
\* string, and that of an entity output is the dash.
C12_AbsentTextGivesPlaceholder ==
  (Built(DashboardOps \cup LogsOps \cup EntityOps) /\ Get(args[2], "text") \in {Undef, Null})
    => Body = (IF op \in EntityOps THEN Dash[2] ELSE placeholder[2])

\* The flag of the options of the call is true.
Flag(name) == Get(Options(args[4]), name) = Bool(TRUE)

\* The peer title of the messages, which only the peer fragment shows.
TitleShown ==
  \E i \in 1..(Len(Html) - 3) : SubSeq(Html, i, i + 3) = Get(args[2], "peer_title")[2]

\* C13: buildEntityRow shows the peer fragment exactly when showChatColumn
\* is true and the sender fragment exactly when showSenderColumn is true, in
\* both layouts; with both false or absent the output holds neither, no link
\* to /chat/ or /user/ included, even when peer_id and from_id are present.
C13_ColumnsIffFlags ==
  Built(EntityOps) =>
    /\ TitleShown <=> Flag("showChatColumn")
    /\ Contains(Html, SenderOpen) <=> Flag("showSenderColumn")
    /\ ~Flag("showChatColumn") => ~Contains(Html, ChatLinkOpen)
    /\ ~Flag("showSenderColumn") => ~Contains(Html, UserLinkOpen)
    /\ (Flag("showChatColumn") /\ IdPresent(Get(args[2], "peer_id")))
         => ContainsLink(Html, ChatLinkOpen, StringOf(Get(args[2], "peer_id")), LinkAttrs)
    /\ (Flag("showSenderColumn") /\ IdPresent(Get(args[2], "from_id")))
         => ContainsLink(Html, UserLinkOpen, StringOf(Get(args[2], "from_id")), LinkAttrs)
    /\ op = "buildEntityRow"
         => CellCount(Html) = 3 + (IF Flag("showChatColumn") THEN 1 ELSE 0)
                                + (IF Flag("showSenderColumn") THEN 1 ELSE 0)

\* C13 witness: an entity row has been built without options for a message
\* with peer_id and from_id: three cells, no peer and no sender fragment.
C13_Witness ==
  /\ Built({"buildEntityRow"})
  /\ args[4] = Undef
  /\ Get(args[2], "peer_id") = Num(5)
  /\ Get(args[2], "from_id") = Num(9)
  /\ CellCount(Html) = 3
  /\ ~TitleShown
  /\ ~Contains(Html, SenderOpen)

\* The message of the call has peer_id and from_id, is a bot's, has a text
\* that is not empty, and its reply is null.
LinkedBotMessage ==
  /\ IdPresent(Get(args[2], "peer_id"))
  /\ IdPresent(Get(args[2], "from_id"))
  /\ Get(args[2], "is_bot") = Bool(TRUE)
  /\ Tag(Get(args[2], "text")) = "string"
  /\ Get(args[2], "text") # Str(<<>>)
  /\ Get(args[2], "reply") = Null

\* C14: for a message with peer_id and from_id, is_bot true, a text that is
\* not empty and reply null, the dashboard output (either layout, whatever
\* the options and the collaborator) holds a link to /chat/<peer_id>, a link
\* to /user/<from_id>, one Bot badge, the text itself as body, character for
\* character, and no reply block.
C14_DashboardLinksBadgeAndText ==
  (Built(DashboardOps) /\ LinkedBotMessage) =>
    /\ ContainsLink(Html, ChatLinkOpen, StringOf(Get(args[2], "peer_id")), LinkAttrs)
    /\ ContainsLink(Html, UserLinkOpen, StringOf(Get(args[2], "from_id")), LinkAttrs)
    /\ Count(Html, BotBadge) = 1
    /\ Body = Get(args[2], "text")[2]
    /\ ~Contains(Html, CompactOpen)
    /\ ~Contains(Html, DetailedOpen)
    /\ ~Contains(Html, BubbleReplyOpen)

\* C14 witness: the dashboard row of such a message, with markup characters
\* in its text, has been built against a complete collaborator.
C14_Witness ==
  /\ Built({"buildDashboardRow"})
  /\ LinkedBotMessage
  /\ galleryApi = FullApi
  /\ Body = <<"<", "b", ">", "&">>
  /\ Contains(Html, BotBadge)
  /\ Contains(Html, ChatLinkOpen)

\* The registrations of a log, in order.
Registrations(log) == SelectSeq(log, LAMBDA c : c[1] = "registerMessageGallery")

\* C15: registerEntityGalleries on a list of n messages makes n
\* registrations against a collaborator that registers, in index order, the
\* message at index i under 'entity-msg-<i>', and the registry then holds
\* each of them under its key; the keys of distinct positions differ.  When
\* the argument is not an array it makes no call of the collaborator at all
\* and returns undefined.
C15_ListRegisteredByPosition ==
  /\ \A i, j \in 0..(MaxList + 10) : i # j => EntityKey(i) # EntityKey(j)
  /\ op = "registerEntityGalleries" =>
       IF Tag(args[2]) # "array" THEN calls = <<>> /\ ret = Undef
       ELSE Registers(galleryApi) =>
              /\ ret = Undef
              /\ Len(Registrations(calls)) = Len(args[2][2])
              /\ \A i \in 1..Len(args[2][2]) :
                   /\ Registrations(calls)[i][2] = <<"entity-msg-">> \o Digits(i - 1)
                   /\ IsEntryOf(Registrations(calls)[i][3], args[2][2][i], galleryApi)
                   /\ registry[<<"entity-msg-">> \o Digits(i - 1)] = Registrations(calls)[i][3]

\* C15 witness: a list of two different messages has been registered with
\* a complete collaborator, the second message under entity-msg-1.
C15_Witness ==
  /\ op = "registerEntityGalleries"
  /\ galleryApi = FullApi
  /\ args[2] = Arr(<<MsgSparse, MsgFull>>)
  /\ Len(Registrations(calls)) = 2
  /\ Get(registry[<<"entity-msg-", "1">>], "text") = Chars("h", "i")
  /\ Get(registry[<<"entity-msg-", "0">>], "text") = Null

\* The collaborator of the call normalises the attachments or the forwarded
\* messages of the message to a list that is not empty.
MediaNormalized ==
  \/ Supplies(galleryApi, "extractAttachments") /\ ExtractAttachments(args[2])[2] # <<>>
  \/ Supplies(galleryApi, "extractCopyHistory") /\ ExtractCopyHistory(args[2])[2] # <<>>

\* What the attachment cell of a row holds (the last but one of an entity
\* row, the 5th of a dashboard row, the 6th of a log row).
ContentCellOf ==
  IF op = "buildDashboardRow" THEN CellContent(Html, 5)
  ELSE IF op = "buildLogsRow" THEN CellContent(Html, 6)
  ELSE CellContent(Html, CellCount(Html) - 1)

GalleryOpen == "<div class='message-gallery' data-gallery-key='"

Unloaded(api, a) ==
  /\ op = "start"
  /\ args = a
  /\ ret = Undef
  /\ galleryApi = api
  /\ registry = EmptyRegistry
  /\ calls = <<>>
  /\ lastByKey = EmptyRegistry
  /\ repeat = FALSE
  /\ chatHistory = "none"

\* The first function of the file runs: global.chatHistory = { the card definitions }.
RunCardScript ==
  /\ op = "start"
  /\ op' = "card-defined"
  /\ chatHistory' = "card"
  /\ UNCHANGED <<args, ret, galleryApi, registry, calls, lastByKey, repeat>>

\* A plausible slip: the second object is assigned only when none is there yet.
RunTableScript_KeepsFirst ==
  /\ op = "card-defined"
  /\ op' = "load"
  /\ chatHistory' = (IF chatHistory = "none" THEN "table" ELSE chatHistory)
  /\ UNCHANGED <<args, ret, galleryApi, registry, calls, lastByKey, repeat>>

\* The second function of the file runs: global.chatHistory = { the table definitions }.
RunTableScript ==
  /\ op = "card-defined"
  /\ op' = "load"
  /\ chatHistory' = "table"
  /\ UNCHANGED <<args, ret, galleryApi, registry, calls, lastByKey, repeat>>

\* chatHistory.name(...a): the operation of that name in the object which
\* chatHistory holds; <<value, world>>.
Member(which, name, a, world) ==
  CASE name = "buildAvatarLabel" -> <<buildAvatarLabel(a[2], a[3]), world>>
    [] name = "buildPeerCell" -> <<buildPeerCell(a[2], a[3]), world>>
    [] name = "buildSenderCell" -> <<buildSenderCell(a[2], a[3]), world>>
    [] name = "buildReplyPreview" -> <<buildReplyPreview(a[2], a[3]), world>>
    [] name = "prepareGalleryContent" ->
         IF which = "card" THEN prepareGalleryContentCard(a[2], galleryApi, a[3], world)
         ELSE prepareGalleryContent(a[2], galleryApi, a[3], world)
    [] name = "buildDashboardRow" ->
         IF which = "card" THEN buildDashboardRowCard(a[2], galleryApi, a[3], a[4], world)
         ELSE buildDashboardRow(a[2], galleryApi, a[3], a[4], world)
    [] name = "buildLogsRow" ->
         IF which = "card" THEN buildLogsRowCard(a[2], galleryApi, a[3], a[4], world)
         ELSE buildLogsRow(a[2], galleryApi, a[3], a[4], world)
    [] name = "buildEntityRow" ->
         IF which = "card" THEN buildEntityRowCard(a[2], galleryApi, a[3], a[4], world)
         ELSE buildEntityRow(a[2], galleryApi, a[3], a[4], world)
    [] name = "registerEntityGalleries" -> registerEntityGalleries(a[2], galleryApi, world)

\* The names of the object assigned to global.chatHistory.
ApiNames ==
  {"buildAvatarLabel", "buildPeerCell", "buildSenderCell", "buildReplyPreview",
   "prepareGalleryContent", "buildDashboardRow", "buildLogsRow", "buildEntityRow",
   "registerEntityGalleries"}

\* The page makes its call through window.chatHistory once the script has run.
ApiCall ==
  /\ chatHistory # "none"
  /\ args[1] \in ApiNames
  /\ ApplyWorld(args[1], Member(chatHistory, args[1], args, World))

LoadCalls ==
  {<<name, message, FreeKey, options>> :
     name \in TableOps, message \in GalleryMessages,
     options \in {Undef, Obj(<<<<"isNew", Bool(TRUE)>>, <<"showChatColumn", Bool(TRUE)>>>>)}}
  \cup {<<"prepareGalleryContent", message, FreeKey>> : message \in GalleryMessages}
  \cup {<<"registerEntityGalleries", messages>> : messages \in MessageLists}
  \cup {<<"buildAvatarLabel", Undef, avatarUrl>> : avatarUrl \in Avatars}
  \cup {<<name, message, Undef>> :
          name \in {"buildPeerCell", "buildSenderCell"}, message \in GalleryMessages}
  \cup {<<"buildReplyPreview", Get(message, "reply"), Undef>> : message \in GalleryMessages}

LoadNext == RunCardScript \/ RunTableScript \/ ApiCall

\* The script is run, then one call is made through chatHistory.
SpecLoad == (\E api \in RowApis, a \in LoadCalls : Unloaded(api, a)) /\ [][LoadNext]_vars

\* The fragment is card-shaped: a div of class chat-item with the bubble markup.
CardShaped(v) ==
  /\ Tag(v) = "element"
  /\ \/ v[2] = "div"
     \/ Contains(v[3], "chat-item")
     \/ Contains(v[4], AvatarColOpen)
     \/ Contains(v[4], BubbleTextOpen)

\* C17: the script assigns chatHistory twice, the card definitions first and
\* the table definitions second, so that from the end of the script on
\* chatHistory holds the table definitions: the card ones are held only
\* between the two assignments, when the page can make no call; every
\* element returned through chatHistory is a table row, none a card, and
\* prepareGalleryContent falls back to the placeholder, not to ''.
C17_TableDefinitionsAfterLoad ==
  /\ op = "start" => chatHistory = "none"
  /\ op = "card-defined" => chatHistory = "card"
  /\ op \notin {"start", "card-defined"} =>
       /\ chatHistory = "table"
       /\ ~CardShaped(ret)
       /\ Tag(ret) = "element" => (ret[2] = "tr" /\ CellCount(ret[4]) >= 3)
       /\ (op = "prepareGalleryContent" /\ ~Supplies(galleryApi, "buildContentCell"))
            => Get(ret, "contentCell") = placeholder
  /\ op \in ApiNames => args[1] = op

\* C17 witness: after the script a dashboard row has been asked for through
\* chatHistory and a table row came back.
C17_Witness ==
  /\ op = "buildDashboardRow"
  /\ chatHistory = "table"
  /\ Tag(ret) = "element"
  /\ ret[2] = "tr"
  /\ CellCount(ret[4]) = 6

====
